---- MODULE Spec2Model ----
(***************************************************************************)
(* Model of fluent_clust: the online algorithm that fits a stream of       *)
(* points to a set of weighted balls kept in a sparse neighbour graph.     *)
(*                                                                         *)
(* Numbers.  The program computes in f64.  Here every number is a decimal  *)
(* fixed-point value: the integer n stands for n / Scale, and every        *)
(* product and quotient is rounded to the nearest representable value      *)
(* (ties to even), as an f64 operation is.  Infinity and NaN are two       *)
(* reserved values with the IEEE rules the program meets: x / inf = 0,     *)
(* x / 0 = inf, 0 / 0 = NaN, and every ordered comparison with NaN false.  *)
(*                                                                         *)
(* Memory.  A vertex is an Rc<RefCell<Node>>; a neighbour is a Weak to     *)
(* the same allocation.  heap maps an address to the node stored there,    *)
(* strong is the allocation's strong count; a Weak upgrades iff the        *)
(* strong count is positive.  Addresses are never reused while a Weak to   *)
(* them exists, so they are allocated from a counter.  Every clone of a    *)
(* vertex that a call of fit makes lives in a local of that call and is    *)
(* dropped before it returns, so between two calls the strong references   *)
(* are the ones the graph holds.                                           *)
(*                                                                         *)
(* Long runs.  The grid above is too coarse to follow a weight down to     *)
(* DECAY_THRESHOLD, which is below its resolution.  bystander is one       *)
(* component followed on a finer grid (FineScale) through the decay        *)
(* passes of fits that neither absorb into it nor merge it: its weight,    *)
(* and whether the graph still retains it.                                 *)
(*                                                                         *)
(* Nearest pair.  selection is one call of the two-nearest selection of    *)
(* neighbors.rs on its own: the (candidate, distance) couples the iterator *)
(* yielded and the neighbourhood the call returned for them.               *)
(*                                                                         *)
(* Load.  A model is also built by Model::load from a list of balls;       *)
(* step.data is the list the model was loaded from.                        *)
(*                                                                         *)
(* Streamer.  stream is one call of Streamer::run: how it stands (running, *)
(* or the result it returned), the number of items it pulled from the      *)
(* input iterator, the last item pulled, the outputs it handed to the      *)
(* sink, one per call of the sink, and the answer of the sink to the last  *)
(* one.  A text is the JSON value it denotes: a sequence of JSON values    *)
(* for an array, a JSON value being a number or null.                      *)
(*                                                                         *)
(* Service.  service is the backend of service.rs around that call of run: *)
(* the two mpsc channels (points, models), the vector of subscribers under *)
(* its mutex (peers) and the websockets the listener accepted and kept. A  *)
(* socket is named by its rank among them and has: the role its path gave  *)
(* it, whether its reader thread is still in its loop (reading), what      *)
(* can_write() answers, the calls of write_message on it with their        *)
(* outcome (frames), and, to state the properties, the number of messages  *)
(* its reader read and the last one, the number of texts it forwarded, and *)
(* the number of outputs the dispatcher had broadcast when it was          *)
(* registered (joined).  A websocket path is the sequence of its segments. *)
(* The dispatcher takes the mutex in one step and broadcasts and releases  *)
(* it in the next; a registration takes and releases it within one step,   *)
(* and waits while the dispatcher holds it.  A text in the points channel  *)
(* is paired with the connection it came from (origins), and a socket      *)
(* keeps the texts it sent that the fit loop has not taken yet (sent).     *)
(* The listener owns a sender of the points channel as long as its thread  *)
(* runs (listening), every reader owns one as long as it reads.  When run  *)
(* returns, main returns and the process ends.                             *)
(***************************************************************************)
EXTENDS Integers, Sequences, FiniteSets, TLC

VARIABLES graph, heap, strong, nextId, fits, step, bystander, selection,
          stream, service

vars == <<graph, heap, strong, nextId, fits, step, bystander, selection,
          stream, service>>

(***************************************************************************)
(* Bounds of the exploration.                                              *)
(***************************************************************************)
MaxFits == 5

Coords == {0, 1, 4, 5, 9}

\* The longest iterator handed to the two-nearest selection on its own.
MaxCandidates == 4

\* The longest list of balls handed to load.
MaxBalls == 3

\* The most items Streamer::run pulls from its input.
MaxRecords == 4

\* The most connections the listener of the service accepts, and the most
\* messages the readers of the service read.
MaxSockets == 3

MaxReads == 2

(***************************************************************************)
(* f64 arithmetic on the fixed-point grid.                                 *)
(***************************************************************************)
Scale == 1000

Infinity == 2000000000

NaN == -2000000000

FromInt(n) == n * Scale

\* n / d for d > 0, rounded to the nearest integer, ties to even.
RoundDiv(n, d) ==
    LET q == n \div d
        r == n % d
    IN  IF 2 * r > d THEN q + 1
        ELSE IF 2 * r < d THEN q
        ELSE IF q % 2 = 0 THEN q ELSE q + 1

Neg(a) == IF a = NaN THEN NaN ELSE IF a = Infinity THEN Infinity ELSE 0 - a

Add(a, b) ==
    IF a = NaN \/ b = NaN THEN NaN
    ELSE IF a = Infinity \/ b = Infinity THEN Infinity
    ELSE a + b

Mul(a, b) ==
    IF a = NaN \/ b = NaN THEN NaN
    ELSE IF a = Infinity \/ b = Infinity
         THEN (IF a = 0 \/ b = 0 THEN NaN ELSE Infinity)
    ELSE RoundDiv(a * b, Scale)

Div(a, b) ==
    IF a = NaN \/ b = NaN THEN NaN
    ELSE IF b = Infinity THEN (IF a = Infinity THEN NaN ELSE 0)
    ELSE IF a = Infinity THEN Infinity
    ELSE IF b = 0 THEN (IF a = 0 THEN NaN ELSE Infinity)
    ELSE IF b > 0 THEN RoundDiv(a * Scale, b)
    ELSE 0 - RoundDiv(a * Scale, 0 - b)

Gt(a, b) ==
    IF a = NaN \/ b = NaN THEN FALSE
    ELSE IF a = Infinity THEN b # Infinity
    ELSE IF b = Infinity THEN FALSE
    ELSE a > b

Lt(a, b) == Gt(b, a)

(***************************************************************************)
(* The constants of the algorithm.                                         *)
(***************************************************************************)
EXTRA_THRESHOLD == FromInt(16)

INTRA_THRESHOLD == FromInt(9)

MERGE_THRESHOLD == FromInt(1)

DECAY_FACTOR == Div(FromInt(999), FromInt(1000))

DECAY_THRESHOLD == Div(FromInt(1), FromInt(1000000))

MAX_NEIGHBORS == 2

\* The grid of the weight of the bystander: n stands for n / FineScale.
FineScale == 1000000000

FineOne == FineScale

\* DECAY_THRESHOLD on the fine grid.
FineThreshold == FineScale \div 1000000

\* w * DECAY_FACTOR on the fine grid, rounded to nearest: w - w * (1 -
\* DECAY_FACTOR), which keeps the intermediate product within 32 bits.
MulDecayFactor(w) == w - RoundDiv(w * (Scale - DECAY_FACTOR), Scale)

(***************************************************************************)
(* The space: points of R^n, squared Euclidean distance, weighted centre.  *)
(***************************************************************************)
Points == {<<FromInt(c)>> : c \in Coords}

Range(s) == {s[i] : i \in 1..Len(s)}

Min(a, b) == IF a < b THEN a ELSE b

RECURSIVE SumFrom(_, _, _)
SumFrom(f, i, n) == IF i > n THEN 0 ELSE Add(f[i], SumFrom(f, i + 1, n))

euclid_dist(p1, p2) ==
    LET n == Min(Len(p1), Len(p2))
        sq == [i \in 1..n |-> LET d == Add(p1[i], Neg(p2[i])) IN Mul(d, d)]
    IN  SumFrom(sq, 1, n)

real_combine(p1, w1, p2, w2) ==
    LET w == Add(w1, w2)
    IN  [i \in 1..Min(Len(p1), Len(p2)) |->
            Div(Add(Mul(p1[i], w1), Mul(p2[i], w2)), w)]

(***************************************************************************)
(* The graph: vertices, weak neighbours, the neighbour iterator.           *)
(***************************************************************************)
NormalData(mu, sigma, weight) == [mu |-> mu, sigma |-> sigma, weight |-> weight]

Data(h, v) == NormalData(h[v].mu, h[v].sigma, h[v].weight)

\* Vertex::eq compares the Rc's, Rc compares the RefCell's, RefCell compares
\* the nodes, and Node::eq compares the data: equality is by value.
VertexEq(h, a, b) == Data(h, a) = Data(h, b)

as_neighbor(v) == v

get_neighbors(vs) == [i \in 1..Len(vs) |-> as_neighbor(vs[i])]

\* An upgrade that always succeeds, as a strong pointer would.
upgrade_always(s, target) == <<target>>

\* Weak::upgrade: Some(vertex) while the allocation has a strong owner.
upgrade(s, target) == IF s[target] > 0 THEN <<target>> ELSE <<>>

RECURSIVE NeighborIterator_next(_, _, _)
NeighborIterator_next(s, neighbors, curr) ==
    IF curr > Len(neighbors) THEN <<>>
    ELSE LET neighbor == upgrade(s, neighbors[curr])
         IN  IF neighbor = <<>>
             THEN NeighborIterator_next(s, neighbors, curr + 1)
             ELSE neighbor \o NeighborIterator_next(s, neighbors, curr + 1)

iter_neighbors(m, v) == NeighborIterator_next(m.strong, m.heap[v].neighbors, 1)

set_neighbors(m, v, neighbors) ==
    [m EXCEPT !.heap[v].neighbors = neighbors]

(***************************************************************************)
(* The two nearest neighbours of a point.                                  *)
(***************************************************************************)
NeighborDist(coord, dist) == <<coord, dist>>

\* A selection among three that leaves out the last comparison.
smallest_two_swaps(d1, d2, d3) ==
    LET a1 == IF Gt(d1[2], d2[2]) THEN d2 ELSE d1
        a2 == IF Gt(d1[2], d2[2]) THEN d1 ELSE d2
        b2 == IF Gt(a2[2], d3[2]) THEN d3 ELSE a2
    IN  <<a1, b2>>

smallest(d1, d2, d3) ==
    LET a1 == IF Gt(d1[2], d2[2]) THEN d2 ELSE d1
        a2 == IF Gt(d1[2], d2[2]) THEN d1 ELSE d2
        b2 == IF Gt(a2[2], d3[2]) THEN d3 ELSE a2
        c1 == IF Gt(a1[2], b2[2]) THEN b2 ELSE a1
        c2 == IF Gt(a1[2], b2[2]) THEN a1 ELSE b2
    IN  <<c1, c2>>

RECURSIVE fold_smallest(_, _, _)
fold_smallest(acc, iter, i) ==
    IF i > Len(iter) THEN acc
    ELSE fold_smallest(smallest(acc[1], acc[2], iter[i]), iter, i + 1)

\* A start of the fold that also swaps two candidates at equal distance.
fold_others_2_swaps_ties(first, second, iter) ==
    LET f == IF Lt(first[2], second[2]) THEN first ELSE second
        s == IF Lt(first[2], second[2]) THEN second ELSE first
    IN  fold_smallest(<<f, s>>, iter, 3)

fold_others_2(first, second, iter) ==
    LET f == IF Gt(first[2], second[2]) THEN second ELSE first
        s == IF Gt(first[2], second[2]) THEN first ELSE second
    IN  fold_smallest(<<f, s>>, iter, 3)

fold_1(first, iter) ==
    IF Len(iter) >= 2 THEN fold_others_2(first, iter[2], iter) ELSE <<first>>

fold_0(iter) == IF Len(iter) >= 1 THEN fold_1(iter[1], iter) ELSE <<>>

\* The distances the selection is given on its own: dist returns a
\* non-negative real; the infinite one is what normalize yields for a far
\* point and a zero radius.
Distances == {0, FromInt(1), FromInt(4), Infinity}

(***************************************************************************)
(* The model: the graph of components and the normalized distance.         *)
(***************************************************************************)
normalize(p1, p2) == Div(euclid_dist(p1, p2.mu), p2.sigma)

get_neighborhood(m, point) ==
    LET iter == [i \in 1..Len(m.graph) |->
                    NeighborDist(m.graph[i], normalize(point, m.heap[m.graph[i]]))]
        neighborhood == fold_0(iter)
    IN  [i \in 1..Len(neighborhood) |-> neighborhood[i][1]]

\* Vertex::new, set_neighbors, graph.push: the new vertex is at m.nextId.
add_component(m, component, neighbors) ==
    [graph  |-> Append(m.graph, m.nextId),
     heap   |-> m.heap @@ (m.nextId :>
                   [mu |-> component.mu, sigma |-> component.sigma,
                    weight |-> component.weight, neighbors |-> neighbors]),
     strong |-> m.strong @@ (m.nextId :> 1),
     nextId |-> m.nextId + 1]

\* The first loop of load: every ball is added without neighbour.
RECURSIVE load_add(_, _, _)
load_add(m, data, i) ==
    IF i > Len(data) THEN m
    ELSE load_add(add_component(m, data[i], <<>>), data, i + 1)

\* The vertices load offers as neighbours of vertex: graph.iter().filter(|v|
\* v.ne(&vertex)), where ne is the negation of Vertex::eq.
load_candidates(m, vertex) ==
    SelectSeq(m.graph, LAMBDA v : ~VertexEq(m.heap, v, vertex))

\* The neighbourhood of the centre of vertex among its candidates.
load_neighborhood(m, vertex, candidates) ==
    LET iter == [i \in 1..Len(candidates) |->
                    NeighborDist(candidates[i],
                                 normalize(m.heap[vertex].mu, m.heap[candidates[i]]))]
        neighborhood == fold_0(iter)
    IN  [i \in 1..Len(neighborhood) |-> neighborhood[i][1]]

\* The second loop of load from the i-th vertex of the graph on.
RECURSIVE load_link(_, _)
load_link(m, i) ==
    IF i > Len(m.graph) THEN m
    ELSE load_link(
             set_neighbors(m, m.graph[i],
                 get_neighbors(load_neighborhood(m, m.graph[i],
                                   load_candidates(m, m.graph[i])))),
             i + 1)

\* Model::load, on the model Self::new built.
load(m, data) == load_link(load_add(m, data, 1), 1)

\* A closure that keeps a component whose weight is not below the threshold.
decay_closure_at_threshold(v) ==
    LET weight == Mul(v.weight, DECAY_FACTOR)
    IN  [data |-> NormalData(v.mu, v.sigma, weight),
         keep |-> ~Lt(weight, DECAY_THRESHOLD)]

\* A closure that keeps every component.
decay_closure_keeps(v) ==
    LET weight == Mul(v.weight, DECAY_FACTOR)
    IN  [data |-> NormalData(v.mu, v.sigma, weight), keep |-> TRUE]

\* The closure decay hands to iter_components_mut: it scales the weight and
\* answers whether the component is kept.
decay_closure(v) ==
    LET weight == Mul(v.weight, DECAY_FACTOR)
    IN  [data |-> NormalData(v.mu, v.sigma, weight),
         keep |-> Gt(weight, DECAY_THRESHOLD)]

\* A closure on the fine grid that keeps every component.
decay_closure_fine_keeps(w) ==
    [weight |-> MulDecayFactor(w), keep |-> TRUE]

\* The closure of decay on a weight of the fine grid.
decay_closure_fine(w) ==
    [weight |-> MulDecayFactor(w),
     keep |-> MulDecayFactor(w) > FineThreshold]

\* Visits the components in graph order, lets the closure change the data
\* and keeps the vertices for which it answers true; a vertex that is not
\* kept is removed from the graph, which drops the strong reference the
\* graph held.  kept is the part of the graph retained so far.
RECURSIVE retain_from(_, _, _)
retain_from(m, i, kept) ==
    IF i > Len(m.graph) THEN [m EXCEPT !.graph = kept]
    ELSE
        LET v  == m.graph[i]
            r  == decay_closure(Data(m.heap, v))
            m1 == [m EXCEPT !.heap[v].mu = r.data.mu,
                            !.heap[v].sigma = r.data.sigma,
                            !.heap[v].weight = r.data.weight]
        IN  IF r.keep
            THEN retain_from(m1, i + 1, Append(kept, v))
            ELSE retain_from([m1 EXCEPT !.strong[v] = m1.strong[v] - 1], i + 1, kept)

iter_components_mut(m) == retain_from(m, 1, <<>>)

(***************************************************************************)
(* The algorithm.                                                          *)
(***************************************************************************)
\* A first component that already weighs two points.
init_weighted(m, point) ==
    add_component(m, NormalData(point, Infinity, FromInt(2)), <<>>)

\* The first component: infinite variance, zero weight, no neighbour.
init(m, point) == add_component(m, NormalData(point, Infinity, 0), <<>>)

\* A centre update that counts the incoming point into the old weight.
update_mu_mean(component, point) ==
    real_combine(component.mu, Add(component.weight, FromInt(1)), point, FromInt(1))

update_mu(component, point) ==
    real_combine(component.mu, component.weight, point, FromInt(1))

\* A variance update that leaves a component without weight its variance.
update_sigma_keeps_unweighted(component, dist) ==
    IF component.weight = 0 THEN component.sigma
    ELSE Div(Add(Mul(component.sigma, component.weight), dist),
             Add(component.weight, FromInt(1)))

update_sigma(component, dist) ==
    IF component.weight = 0 THEN dist
    ELSE Div(Add(Mul(component.sigma, component.weight), dist),
             Add(component.weight, FromInt(1)))

\* An update that increments the weight before it computes the variance.
update_component_weight_first(component, point, dist) ==
    LET c1 == [component EXCEPT !.weight = Add(@, FromInt(1))]
        c2 == [c1 EXCEPT !.mu = update_mu(c1, point)]
    IN  [c2 EXCEPT !.sigma = update_sigma(c1, dist)]

\* The three assignments in program order: update_sigma runs on the
\* component whose centre is already the new one.
update_component(component, point, dist) ==
    LET c1 == [component EXCEPT !.mu = update_mu(component, point)]
        c2 == [c1 EXCEPT !.sigma = update_sigma(c1, dist)]
    IN  [c2 EXCEPT !.weight = Add(@, FromInt(1))]

\* A split that weighs the closest component positively.
split_component_towards(point, d, neighbor) ==
    LET sigma == Div(d, EXTRA_THRESHOLD)
        mu    == real_combine(neighbor.mu, FromInt(1), point, FromInt(5))
    IN  NormalData(mu, sigma, FromInt(1))

split_component(point, d, neighbor) ==
    LET sigma == Div(d, EXTRA_THRESHOLD)
        mu    == real_combine(neighbor.mu, Neg(FromInt(1)), point, FromInt(5))
    IN  NormalData(mu, sigma, FromInt(1))

\* The node after its data were written through as_data_mut.
WithData(node, data) ==
    [node EXCEPT !.mu = data.mu, !.sigma = data.sigma, !.weight = data.weight]

\* An update whose gate forgets INTRA_THRESHOLD.
update_plain_gate(m, vertex, point, neighborhood) ==
    LET closest == Data(m.heap, vertex)
        d       == euclid_dist(closest.mu, point)
    IN  IF Lt(d, closest.sigma)
        THEN [m |-> [m EXCEPT !.heap[vertex] =
                        WithData(@, update_component(closest, point, d))],
              vertex |-> vertex,
              maybe_neighbor |-> IF Len(neighborhood) >= 2
                                 THEN <<neighborhood[2]>> ELSE <<>>,
              kind |-> "absorb", d |-> d]
        ELSE [m |-> add_component(m, split_component(point, d, closest),
                                  get_neighbors(neighborhood)),
              vertex |-> m.nextId,
              maybe_neighbor |-> <<m.nextId>>,
              kind |-> "split", d |-> d]

\* The result is the pair (vertex, maybe_neighbor) of the program, together
\* with the model the call leaves, the branch it took and the distance d.
update(m, vertex, point, neighborhood) ==
    LET closest == Data(m.heap, vertex)
        d       == euclid_dist(closest.mu, point)
    IN  IF Lt(d, Mul(INTRA_THRESHOLD, closest.sigma))
        THEN [m |-> [m EXCEPT !.heap[vertex] =
                        WithData(@, update_component(closest, point, d))],
              vertex |-> vertex,
              maybe_neighbor |-> IF Len(neighborhood) >= 2
                                 THEN <<neighborhood[2]>> ELSE <<>>,
              kind |-> "absorb", d |-> d]
        ELSE [m |-> add_component(m, split_component(point, d, closest),
                                  get_neighbors(neighborhood)),
              vertex |-> m.nextId,
              maybe_neighbor |-> <<m.nextId>>,
              kind |-> "split", d |-> d]

InsertAt(s, i, e) == SubSeq(s, 1, i - 1) \o <<e>> \o SubSeq(s, i, Len(s))

\* The loop of rebuild_neighborhood from its (0-based) index i on.
RECURSIVE rebuild_loop(_, _, _, _, _)
rebuild_loop(m, vertex, neighborhood, candidate, i) ==
    LET current_point  == m.heap[vertex].mu
        candidate_dist == euclid_dist(m.heap[candidate].mu, current_point)
    IN  IF i >= MAX_NEIGHBORS THEN neighborhood
        ELSE IF i = Len(neighborhood) THEN Append(neighborhood, candidate)
        ELSE IF VertexEq(m.heap, neighborhood[i + 1], candidate) THEN neighborhood
        ELSE IF Gt(euclid_dist(m.heap[neighborhood[i + 1]].mu, current_point),
                   candidate_dist)
             THEN InsertAt(neighborhood, i + 1, candidate)
        ELSE rebuild_loop(m, vertex, neighborhood, candidate, i + 1)

\* A refinement that leaves the candidate out of the list.
rebuild_neighborhood_without_candidate(m, vertex, neighborhood, candidate) ==
    neighborhood

rebuild_neighborhood(m, vertex, neighborhood, candidate) ==
    rebuild_loop(m, vertex, neighborhood, candidate, 0)

should_merge(m, first, second) ==
    LET current_data  == Data(m.heap, first)
        neighbor_data == Data(m.heap, second)
        d == euclid_dist(current_data.mu, neighbor_data.mu)
    IN  <<Lt(d, Mul(Add(current_data.sigma, neighbor_data.sigma), MERGE_THRESHOLD)), d>>

\* A merge whose variance is the weighted mean alone, without the distance.
merge_components_mean_sigma(m, vertex, neighbor, d) ==
    LET current_data  == Data(m.heap, vertex)
        neighbor_data == Data(m.heap, neighbor)
        mu     == real_combine(current_data.mu, current_data.weight,
                               neighbor_data.mu, neighbor_data.weight)
        sigma  == Div(Add(Mul(current_data.sigma, current_data.weight),
                          Mul(neighbor_data.sigma, neighbor_data.weight)),
                      Add(current_data.weight, neighbor_data.weight))
        weight == Add(current_data.weight, neighbor_data.weight)
    IN  [m EXCEPT !.heap[vertex].mu = mu,
                  !.heap[vertex].sigma = sigma,
                  !.heap[vertex].weight = weight,
                  !.heap[neighbor].weight = 0]

\* The four assignments in program order: the variance and the weight are
\* computed from the weight the vertex had before the merge.
merge_components(m, vertex, neighbor, d) ==
    LET current_data  == Data(m.heap, vertex)
        neighbor_data == Data(m.heap, neighbor)
        mu     == real_combine(current_data.mu, current_data.weight,
                               neighbor_data.mu, neighbor_data.weight)
        sigma  == Add(d, Div(Add(Mul(current_data.sigma, current_data.weight),
                                 Mul(neighbor_data.sigma, neighbor_data.weight)),
                             Add(current_data.weight, neighbor_data.weight)))
        weight == Add(current_data.weight, neighbor_data.weight)
    IN  [m EXCEPT !.heap[vertex].mu = mu,
                  !.heap[vertex].sigma = sigma,
                  !.heap[vertex].weight = weight,
                  !.heap[neighbor].weight = 0]

\* A merge step in which the closest neighbour absorbs the vertex.
rebuild_merge_reversed(m, vertex, neighborhood) ==
    LET sm == should_merge(m, vertex, neighborhood[1])
    IN  IF sm[1]
        THEN [m |-> merge_components(m, neighborhood[1], vertex, sm[2]),
              neighborhood |-> Tail(neighborhood)]
        ELSE [m |-> m, neighborhood |-> neighborhood]

rebuild_merge(m, vertex, neighborhood) ==
    LET sm == should_merge(m, vertex, neighborhood[1])
    IN  IF sm[1]
        THEN [m |-> merge_components(m, vertex, neighborhood[1], sm[2]),
              neighborhood |-> Tail(neighborhood)]
        ELSE [m |-> m, neighborhood |-> neighborhood]

\* No pop.
pop_never(neighborhood) == neighborhood

\* neighborhood.pop() when the list is longer than MAX_NEIGHBORS.
pop_overflow(neighborhood) ==
    IF Len(neighborhood) > MAX_NEIGHBORS
    THEN SubSeq(neighborhood, 1, Len(neighborhood) - 1)
    ELSE neighborhood

\* An end of update_local_graph that makes the relation symmetric: the
\* closest neighbour is given the vertex as its list.
commit_neighborhood_both_ways(merged, vertex) ==
    LET kept == pop_overflow(merged.neighborhood)
        m1   == set_neighbors(merged.m, vertex, get_neighbors(kept))
    IN  IF kept = <<>> THEN m1
        ELSE set_neighbors(m1, kept[1], get_neighbors(<<vertex>>))

\* The end of update_local_graph, on the result of rebuild_merge.
commit_neighborhood(merged, vertex) ==
    set_neighbors(merged.m, vertex, get_neighbors(pop_overflow(merged.neighborhood)))

update_local_graph(m, vertex, candidate) ==
    commit_neighborhood(
        rebuild_merge(m, vertex,
            rebuild_neighborhood(m, vertex, iter_neighbors(m, vertex), candidate)),
        vertex)

\* A decay that does not compensate the weight of the vertex.
decay_vertex_too(m, vertex) == iter_components_mut(m)

decay(m, vertex) ==
    iter_components_mut([m EXCEPT !.heap[vertex].weight = Div(@, DECAY_FACTOR)])

\* What a call of fit leaves: the model, and what it computed on the way:
\* the branch, the neighbourhood of the point, the distance to the closest
\* component, the vertex, the model after update and the model after
\* update_local_graph (the one decay starts from).
FitResult(m, kind, neighborhood, d, vertex, updated, refined) ==
    [m |-> m, kind |-> kind, neighborhood |-> neighborhood, d |-> d,
     vertex |-> vertex, updated |-> updated, refined |-> refined]

\* A None arm that runs the decay pass too.
fit_none_decays(m, point, neighborhood, m1) ==
    FitResult(decay(m1, m.nextId), "init", neighborhood, 0, m.nextId, m1, m1)

\* The None arm of fit.
fit_none(m, point, neighborhood, m1) ==
    FitResult(m1, "init", neighborhood, 0, m.nextId, m1, m1)

\* The Some(candidate) arm of fit after update returned u.
fit_refine(candidate, u) ==
    IF u.maybe_neighbor # <<>>
    THEN update_local_graph(u.m, candidate, u.maybe_neighbor[1])
    ELSE u.m

\* The calls of rebuild_merge that do not return: neighborhood[0] on an empty
\* list is an index out of bounds, and merge_components borrows the data of
\* the vertex and of the neighbour mutably at once, which the RefCell refuses
\* when the two are one node.
rebuild_merge_aborts(m, vertex, neighborhood) ==
    \/ neighborhood = <<>>
    \/ /\ should_merge(m, vertex, neighborhood[1])[1]
       /\ neighborhood[1] = vertex

update_local_graph_aborts(m, vertex, candidate) ==
    rebuild_merge_aborts(m, vertex,
        rebuild_neighborhood(m, vertex, iter_neighbors(m, vertex), candidate))

\* The refinement of fit aborts: the thread unwinds with the model as update
\* left it.
fit_aborts(candidate, u) ==
    /\ u.maybe_neighbor # <<>>
    /\ update_local_graph_aborts(u.m, candidate, u.maybe_neighbor[1])

\* A decay pass that spares the closest component instead of the vertex.
fit_decay_spares_closest(neighborhood, u, m2) ==
    FitResult(decay(m2, neighborhood[1]), u.kind, neighborhood, u.d, u.vertex,
              u.m, m2)

fit_decay(neighborhood, u, m2) ==
    FitResult(decay(m2, u.vertex), u.kind, neighborhood, u.d, u.vertex, u.m, m2)

fit_some(candidate, neighborhood, u) ==
    IF fit_aborts(candidate, u)
    THEN FitResult(u.m, "panic", neighborhood, u.d, u.vertex, u.m, u.m)
    ELSE fit_decay(neighborhood, u, fit_refine(candidate, u))

fit_match(m, point, neighborhood) ==
    IF Len(neighborhood) = 0
    THEN fit_none(m, point, neighborhood, init(m, point))
    ELSE fit_some(neighborhood[1], neighborhood,
                  update(m, neighborhood[1], point, neighborhood))

\* One call of Algo::fit.
fit(m, point) == fit_match(m, point, get_neighborhood(m, point))

(***************************************************************************)
(* The streamer: JSON values, the serialization of a model and one turn of *)
(* the loop of Streamer::run.                                              *)
(***************************************************************************)
JsonNull == [type |-> "null"]

JsonNumber(n) == [type |-> "number", value |-> n]

\* Every f64 written as a number.
json_f64_always_number(n) == JsonNumber(n)

\* json!(x) for an f64: serde_json has no number for a non-finite value.
json_f64(n) == IF n = Infinity \/ n = NaN THEN JsonNull ELSE JsonNumber(n)

\* json!(v) for a Vec<f64>.
json_vec(v) == [i \in 1..Len(v) |-> json_f64(v[i])]

\* The greatest r in lo..hi with r * r <= n.
RECURSIVE isqrt(_, _, _)
isqrt(n, lo, hi) ==
    IF lo = hi THEN lo
    ELSE LET mid == (lo + hi + 1) \div 2
         IN  IF mid * mid <= n THEN isqrt(n, mid, hi) ELSE isqrt(n, lo, mid - 1)

\* f64::sqrt, rounded to the nearest value of the grid.
sqrt(a) ==
    IF a = NaN \/ a < 0 THEN NaN
    ELSE IF a = Infinity THEN Infinity
    ELSE LET n == a * Scale
             r == isqrt(n, 0, 46340)
         IN  IF n - r * r > r THEN r + 1 ELSE r

\* The stored radius handed back as it is.
Ball_radius_squared(data) == data.sigma

\* Ball::radius, the getter: the square root of the stored value.
Ball_radius(data) == sqrt(data.sigma)

serialize_ball(data) ==
    [center |-> json_vec(data.mu),
     radius |-> json_f64(Ball_radius(data)),
     weight |-> json_f64(data.weight)]

\* iter_balls maps the graph, in its order, to the data of its vertices.
iter_balls(m) == [i \in 1..Len(m.graph) |-> Data(m.heap, m.graph[i])]

serialize_model(m) ==
    LET balls == iter_balls(m)
    IN  [i \in 1..Len(balls) |-> serialize_ball(balls[i])]

\* serde_json::from_str::<Vec<f64>>: an array of numbers, or an error.
from_str(text) ==
    IF \A i \in 1..Len(text) : text[i].type = "number"
    THEN [ok |-> TRUE, point |-> [i \in 1..Len(text) |-> text[i].value]]
    ELSE [ok |-> FALSE, point |-> <<>>]

\* The number a field of a snapshot reads back to; null stands for the one
\* value the snapshots write as null, the infinite radius.
read_f64(j) == IF j.type = "null" THEN Infinity ELSE j.value

\* The ball an element of a snapshot reads back to: Ball::new on its three
\* fields.
read_ball(j) ==
    NormalData([i \in 1..Len(j.center) |-> read_f64(j.center[i])],
               read_f64(j.radius), read_f64(j.weight))

\* The list of balls a snapshot reads back to.
read_balls(json) == [i \in 1..Len(json) |-> read_ball(json[i])]

\* Model::new: the empty graph.
Model_new == [graph |-> <<>>, heap |-> <<>>, strong |-> <<>>, nextId |-> 1]

\* An item of the input iterator: Ok(text) or Err.
Item(ok, text) == [ok |-> ok, text |-> text]

\* The turn of run after which the model was fit and the sink was called.
run_written(pulled, point, r, output, sink_ok) ==
    [fitted |-> TRUE, point |-> point, r |-> r,
     stream |-> [pulled EXCEPT
                    !.status = IF sink_ok THEN "running" ELSE "sink error",
                    !.written = Append(@, output),
                    !.sink_ok = sink_ok]]

\* A turn that commits the fit only once the sink has taken the output.
run_turn_fits_on_delivery(m, s, input, sink_ok) ==
    LET pulled == [s EXCEPT !.consumed = @ + 1, !.input = input]
        parsed == from_str(input.text)
    IN  IF ~input.ok
        THEN [fitted |-> FALSE, stream |-> [pulled EXCEPT !.status = "input error"]]
        ELSE IF ~parsed.ok
        THEN [fitted |-> FALSE, stream |-> [pulled EXCEPT !.status = "parse error"]]
        ELSE LET r == fit(m, parsed.point)
                 t == run_written(pulled, parsed.point, r, serialize_model(r.m),
                                  sink_ok)
             IN  IF sink_ok THEN t ELSE [fitted |-> FALSE, stream |-> t.stream]

\* A turn that writes the model as it was before the fit.
run_turn_writes_first(m, s, input, sink_ok) ==
    LET pulled == [s EXCEPT !.consumed = @ + 1, !.input = input]
        parsed == from_str(input.text)
    IN  IF ~input.ok
        THEN [fitted |-> FALSE, stream |-> [pulled EXCEPT !.status = "input error"]]
        ELSE IF ~parsed.ok
        THEN [fitted |-> FALSE, stream |-> [pulled EXCEPT !.status = "parse error"]]
        ELSE run_written(pulled, parsed.point, fit(m, parsed.point),
                         serialize_model(m), sink_ok)

\* A turn that goes on to the next item when the text is no point.
run_turn_skips_unparsed(m, s, input, sink_ok) ==
    LET pulled == [s EXCEPT !.consumed = @ + 1, !.input = input]
        parsed == from_str(input.text)
    IN  IF ~input.ok
        THEN [fitted |-> FALSE, stream |-> [pulled EXCEPT !.status = "input error"]]
        ELSE IF ~parsed.ok
        THEN [fitted |-> FALSE, stream |-> pulled]
        ELSE LET r == fit(m, parsed.point)
             IN  run_written(pulled, parsed.point, r, serialize_model(r.m), sink_ok)

\* One turn of the loop of run on the item the iterator yielded, the sink
\* answering sink_ok to the output it is handed: the result of fit, if fit
\* was called, and the call of run after the turn.
run_turn(m, s, input, sink_ok) ==
    LET pulled == [s EXCEPT !.consumed = @ + 1, !.input = input]
        parsed == from_str(input.text)
    IN  IF ~input.ok
        THEN [fitted |-> FALSE, stream |-> [pulled EXCEPT !.status = "input error"]]
        ELSE IF ~parsed.ok
        THEN [fitted |-> FALSE, stream |-> [pulled EXCEPT !.status = "parse error"]]
        ELSE LET r == fit(m, parsed.point)
             IN  run_written(pulled, parsed.point, r, serialize_model(r.m), sink_ok)

(***************************************************************************)
(* The service: the websocket listener, the readers of points and the      *)
(* dispatcher of models.                                                   *)
(***************************************************************************)
\* str::ends_with on paths.
ends_with(path, suffix) ==
    /\ Len(path) >= Len(suffix)
    /\ SubSeq(path, Len(path) - Len(suffix) + 1, Len(path)) = suffix

\* The mutex of the peers: who holds it, and, to state the properties, the
\* number of outputs the fit loop had emitted when it was taken.
Unlocked == [holder |-> "none", since |-> 0]

Locked(holder, since) == [holder |-> holder, since |-> since]

\* A sink that writes on the peers itself and waits for their mutex.
send_waits_for_lock(sv) == sv.lock.holder # "none"

\* Sender::send on the models channel, which mpsc::channel() makes without
\* bound: the send never waits.
send_waits(sv) == FALSE

\* A websocket as get_websocket returns it, before its path is looked at.
WebSocket(joined) ==
    [role |-> "none", reading |-> FALSE, can_write |-> TRUE, frames |-> <<>>,
     reads |-> 0, last |-> [ok |-> TRUE, type |-> "none", text |-> <<>>],
     forwarded |-> 0, joined |-> joined, sent |-> <<>>]

\* get_websocket on a connection whose accept or whose handshake fails: the
\* unwrap panics in the thread of the listener, the panic unwinds, the
\* thread ends and drops its sender of the points channel.
get_websocket_fails(sv) == [sv EXCEPT !.listening = FALSE]

\* No sender of the points channel is left and the channel is empty: the
\* iterator of the receiver ends.
points_ended(sv) ==
    /\ ~sv.listening
    /\ \A c \in 1..Len(sv.sockets) : ~sv.sockets[c].reading
    /\ sv.points = <<>>

\* handle_point_receiver: a thread is spawned that reads the websocket.
handle_point_receiver(sv, websocket) ==
    [sv EXCEPT !.sockets =
        Append(@, [websocket EXCEPT !.role = "points", !.reading = TRUE])]

\* handle_model_producer: the websocket is pushed on the peers.
handle_model_producer(sv, websocket) ==
    [sv EXCEPT !.sockets = Append(@, [websocket EXCEPT !.role = "models"]),
               !.peers = Append(@, Len(sv.sockets) + 1)]

\* One turn of the loop of start_websockets for a connection on path; on
\* another path the websocket is dropped at the end of the turn.
start_websockets(sv, path, websocket) ==
    IF ends_with(path, <<"ws", "points">>)
    THEN handle_point_receiver(sv, websocket)
    ELSE IF ends_with(path, <<"ws", "models">>)
    THEN handle_model_producer(sv, websocket)
    ELSE sv

\* A message: Message::Text, Binary, Close, or another one (a ping).
Message(type, text) == [ok |-> TRUE, type |-> type, text |-> text]

\* read_point that puts the text at the head of the points channel.
read_point_sends_first(message, points) ==
    IF message.type = "text"
    THEN [continue |-> TRUE, points |-> <<message.text>> \o points]
    ELSE [continue |-> message.type # "close", points |-> points]

\* read_point that sends the content of a binary message as well.
read_point_forwards_binary(message, points) ==
    IF message.type \in {"text", "binary"}
    THEN [continue |-> TRUE, points |-> Append(points, message.text)]
    ELSE [continue |-> message.type # "close", points |-> points]

\* read_point: whether the reader goes on, and the points channel after it.
read_point(message, points) ==
    IF message.type = "text"
    THEN [continue |-> TRUE, points |-> Append(points, message.text)]
    ELSE IF message.type = "binary" THEN [continue |-> TRUE, points |-> points]
    ELSE IF message.type = "close" THEN [continue |-> FALSE, points |-> points]
    ELSE [continue |-> TRUE, points |-> points]

\* One turn of the loop of the reader of socket c, read_message returning
\* msg: a message or an error.
reader_turn(sv, c, msg) ==
    LET r    == IF msg.ok THEN read_point(msg, sv.points)
                ELSE [continue |-> FALSE, points |-> sv.points]
        sent == Len(r.points) - Len(sv.points)
    IN  [sv EXCEPT !.points = r.points,
                   !.origins = @ \o [k \in 1..sent |-> c],
                   !.sockets[c] = [@ EXCEPT !.reading = r.continue,
                                            !.reads = @ + 1,
                                            !.last = msg,
                                            !.forwarded = @ + sent,
                                            !.sent = IF msg.ok /\ msg.type = "text"
                                                     THEN Append(@, msg.text)
                                                     ELSE @]]

\* send_model that keeps the peer that cannot be written.
send_model_keeps_all(peer, msg, write_ok) ==
    IF peer.can_write
    THEN [keep |-> TRUE,
          peer |-> [peer EXCEPT !.frames = Append(@, [text |-> msg, ok |-> write_ok])]]
    ELSE [keep |-> TRUE, peer |-> peer]

\* send_model: whether the peer is kept, and the peer after the call;
\* write_ok is the result of write_message.
send_model(peer, msg, write_ok) ==
    IF peer.can_write
    THEN [keep |-> TRUE,
          peer |-> [peer EXCEPT !.frames = Append(@, [text |-> msg, ok |-> write_ok])]]
    ELSE [keep |-> FALSE, peer |-> peer]

\* peers.retain_mut(|peer| send_model(peer, msg.clone())) from the i-th
\* peer on; failing is the set of the peers on which write_message fails.
RECURSIVE retain_mut(_, _, _, _, _)
retain_mut(sv, msg, failing, i, kept) ==
    IF i > Len(sv.peers) THEN [sv EXCEPT !.peers = kept]
    ELSE LET p == sv.peers[i]
             r == send_model(sv.sockets[p], msg, p \notin failing)
         IN  retain_mut([sv EXCEPT !.sockets[p] = r.peer], msg, failing, i + 1,
                        IF r.keep THEN Append(kept, p) ELSE kept)

\* One turn of the loop of the dispatcher thread: the next output of the
\* models channel is sent to the peers.
dispatcher_turn(sv, failing) ==
    retain_mut([sv EXCEPT !.models = Tail(@), !.lock = Unlocked],
               Head(sv.models), failing, 1, <<>>)

(***************************************************************************)
(* The state machine: a model fed one point after the other.               *)
(***************************************************************************)
Model == [graph |-> graph, heap |-> heap, strong |-> strong, nextId |-> nextId]

Init ==
    /\ graph = <<>>
    /\ heap = <<>>
    /\ strong = <<>>
    /\ nextId = 1
    /\ fits = 0
    /\ step = [kind |-> "none", point |-> <<>>, pre |-> Model,
               neighborhood |-> <<>>, d |-> 0, vertex |-> 0,
               updated |-> Model, refined |-> Model, data |-> <<>>]
    /\ bystander = [weight |-> FineOne, retained |-> TRUE]
    /\ selection = [iter |-> <<>>, neighborhood |-> fold_0(<<>>)]
    /\ stream = [status |-> "running", consumed |-> 0, input |-> Item(TRUE, <<>>),
                 written |-> <<>>, sink_ok |-> TRUE]
    /\ service = [points |-> <<>>, models |-> <<>>, peers |-> <<>>, sockets |-> <<>>,
                  origins |-> <<>>, lock |-> Unlocked, listening |-> TRUE]

\* The model becomes the one the call left; step remembers the call.
Returned(r, point) ==
    /\ graph' = r.m.graph
    /\ heap' = r.m.heap
    /\ strong' = r.m.strong
    /\ nextId' = r.m.nextId
    /\ step' = [kind |-> r.kind, point |-> point, pre |-> Model,
                neighborhood |-> r.neighborhood, d |-> r.d,
                vertex |-> r.vertex, updated |-> r.updated,
                refined |-> r.refined, data |-> step.data]

Fit(point) ==
    /\ fits < MaxFits /\ step.kind # "panic"
    /\ Returned(fit(Model, point), point)
    /\ fits' = fits + 1
    /\ UNCHANGED <<bystander, selection, stream, service>>

Next == \E point \in Points : Fit(point)

Spec == Init /\ [][Next]_vars

\* The decay pass of one more fit, seen from the bystander: the closure is
\* applied to it and the graph retains it or not.
Retained(r) == bystander' = [weight |-> r.weight, retained |-> r.keep]

DecayPass ==
    /\ bystander.retained
    /\ Retained(decay_closure_fine(bystander.weight))
    /\ UNCHANGED <<graph, heap, strong, nextId, fits, step, selection, stream,
                   service>>

DecayNext == DecayPass

\* run fits every point of the stream: as long as points arrive, passes
\* keep coming.
DecaySpec == Init /\ [][DecayNext]_vars /\ WF_vars(DecayPass)

\* The balls and the lists of balls handed to load.
LoadBalls ==
    {NormalData(<<FromInt(c)>>, FromInt(r), FromInt(1)) : c \in {0, 1, 4}, r \in {1, 4}}

LoadData == UNION {[1..n -> LoadBalls] : n \in 1..MaxBalls}

\* The model becomes the one load built.
Loaded(m, data) ==
    /\ graph' = m.graph
    /\ heap' = m.heap
    /\ strong' = m.strong
    /\ nextId' = m.nextId
    /\ step' = [step EXCEPT !.kind = "load", !.data = data]

Load(data) ==
    /\ step.kind = "none"
    /\ Loaded(load(Model, data), data)
    /\ UNCHANGED <<fits, bystander, selection, stream, service>>

LoadNext == \E data \in LoadData : Load(data)

LoadSpec == Init /\ [][LoadNext]_vars

\* A call of the selection on an iterator of couples.
Selected(iter) == selection' = [iter |-> iter, neighborhood |-> fold_0(iter)]

\* The selection called on the iterator that yields one more candidate, at
\* distance dist; a candidate is named by its place in the iteration.
Select(dist) ==
    /\ Len(selection.iter) < MaxCandidates
    /\ Selected(Append(selection.iter,
                       NeighborDist(Len(selection.iter) + 1, dist)))
    /\ UNCHANGED <<graph, heap, strong, nextId, fits, step, bystander, stream,
                   service>>

SelectNext == \E dist \in Distances : Select(dist)

SelectSpec == Init /\ [][SelectNext]_vars

\* The texts the input yields: a point as a JSON array of one number, and
\* an array that is no point.
Texts == {<<JsonNumber(FromInt(c))>> : c \in Coords} \cup {<<JsonNull>>}

\* The state after a turn of the loop of run.
Turned(t) ==
    /\ stream' = t.stream
    /\ IF t.fitted
       THEN Returned(t.r, t.point) /\ fits' = fits + 1
       ELSE UNCHANGED <<graph, heap, strong, nextId, fits, step>>
    /\ UNCHANGED <<bystander, selection>>

Pulls ==
    /\ stream.status = "running" /\ step.kind # "panic"
    /\ stream.consumed < MaxRecords

\* A turn in which the item is a text that parses and the sink succeeds.
RunFit(text) ==
    /\ Pulls /\ from_str(text).ok
    /\ Turned(run_turn(Model, stream, Item(TRUE, text), TRUE))
    /\ UNCHANGED service

\* A turn in which the sink fails on the output.
RunSinkError(text) ==
    /\ Pulls /\ from_str(text).ok
    /\ Turned(run_turn(Model, stream, Item(TRUE, text), FALSE))
    /\ UNCHANGED service

\* A turn in which the text is no point.
RunParseError(text) ==
    /\ Pulls /\ ~from_str(text).ok
    /\ Turned(run_turn(Model, stream, Item(TRUE, text), TRUE))
    /\ UNCHANGED service

\* A turn in which the iterator yields an error.
RunInputError ==
    /\ Pulls
    /\ Turned(run_turn(Model, stream, Item(FALSE, <<>>), TRUE))
    /\ UNCHANGED service

\* The iterator is exhausted: run returns Ok(()).
RunEnd ==
    /\ stream.status = "running"
    /\ stream' = [stream EXCEPT !.status = "ok"]
    /\ UNCHANGED <<graph, heap, strong, nextId, fits, step, bystander, selection,
                   service>>

StreamNext ==
    \/ \E text \in Texts : RunFit(text)
    \/ \E text \in Texts : RunSinkError(text)
    \/ \E text \in Texts : RunParseError(text)
    \/ RunInputError
    \/ RunEnd

StreamSpec == Init /\ [][StreamNext]_vars

\* The paths clients connect on, the texts and the messages they send.
Paths == {<<"ws", "points">>, <<"ws", "models">>, <<"v1", "ws", "models">>, <<"ws">>}

ServiceTexts == {<<JsonNumber(0)>>, <<JsonNull>>}

Messages ==
    {Message("text", t) : t \in ServiceTexts}
        \cup {Message("binary", <<JsonNumber(0)>>), Message("close", <<>>),
              Message("ping", <<>>), [ok |-> FALSE, type |-> "none", text |-> <<>>]}

\* The process lives as long as run has not returned.
Alive == stream.status = "running" /\ step.kind # "panic"

\* The outputs the dispatcher has broadcast.
Dispatched == Len(stream.written) - Len(service.models)

\* The messages the readers have read, from socket i on.
RECURSIVE ReadsFrom(_)
ReadsFrom(i) ==
    IF i > Len(service.sockets) THEN 0
    ELSE service.sockets[i].reads + ReadsFrom(i + 1)

TotalReads == ReadsFrom(1)

\* The listener accepts a connection on path.
Accept(path) ==
    /\ Alive /\ service.listening /\ Len(service.sockets) < MaxSockets
    /\ ends_with(path, <<"ws", "models">>) => service.lock.holder = "none"
    /\ service' = start_websockets(service, path, WebSocket(Dispatched))
    /\ UNCHANGED <<graph, heap, strong, nextId, fits, step, bystander, selection,
                   stream>>

\* The listener gets a connection that fails.
AcceptError ==
    /\ Alive /\ service.listening
    /\ service' = get_websocket_fails(service)
    /\ UNCHANGED <<graph, heap, strong, nextId, fits, step, bystander, selection,
                   stream>>

\* The input of run is exhausted: run returns Ok(()).
ServiceEnd ==
    /\ Alive /\ points_ended(service)
    /\ stream' = [stream EXCEPT !.status = "ok"]
    /\ UNCHANGED <<graph, heap, strong, nextId, fits, step, bystander, selection,
                   service>>

\* The reader of socket c gets msg from read_message.
Read(c, msg) ==
    /\ Alive /\ TotalReads < MaxReads
    /\ service.sockets[c].role = "points" /\ service.sockets[c].reading
    /\ service' = reader_turn(service, c, msg)
    /\ UNCHANGED <<graph, heap, strong, nextId, fits, step, bystander, selection,
                   stream>>

\* The loop of run receives the next text of the points channel; its sink
\* sends the output on the models channel.
ServiceFit ==
    /\ Alive /\ service.points # <<>>
    /\ LET t == run_turn(Model, stream, Item(TRUE, Head(service.points)), TRUE)
       IN  /\ t.fitted => ~send_waits(service)
           /\ Turned(t)
           /\ service' = [service EXCEPT
                  !.points = Tail(@),
                  !.origins = Tail(@),
                  !.sockets[Head(service.origins)].sent = Tail(@),
                  !.models = IF t.fitted
                             THEN Append(@, t.stream.written[Len(t.stream.written)])
                             ELSE @]

\* The dispatcher has received the next output and takes the mutex of the
\* peers.
DispatcherLock ==
    /\ Alive /\ service.models # <<>> /\ service.lock.holder = "none"
    /\ service' = [service EXCEPT
           !.lock = Locked("dispatcher", Len(stream.written))]
    /\ UNCHANGED <<graph, heap, strong, nextId, fits, step, bystander, selection,
                   stream>>

\* The dispatcher sends the output to the peers and releases the mutex.
Dispatch(failing) ==
    /\ Alive /\ service.models # <<>> /\ service.lock.holder = "dispatcher"
    /\ service' = dispatcher_turn(service, failing)
    /\ UNCHANGED <<graph, heap, strong, nextId, fits, step, bystander, selection,
                   stream>>

\* The websocket of peer p stops being writable.
Unwritable(p) ==
    /\ Alive /\ service.sockets[p].role = "models" /\ service.sockets[p].can_write
    /\ service' = [service EXCEPT !.sockets[p].can_write = FALSE]
    /\ UNCHANGED <<graph, heap, strong, nextId, fits, step, bystander, selection,
                   stream>>

ServiceNext ==
    \/ \E path \in Paths : Accept(path)
    \/ AcceptError
    \/ \E c \in 1..Len(service.sockets), msg \in Messages : Read(c, msg)
    \/ ServiceEnd
    \/ ServiceFit
    \/ DispatcherLock
    \/ \E failing \in SUBSET {service.peers[i] : i \in 1..Len(service.peers)} :
          Dispatch(failing)
    \/ \E p \in 1..Len(service.sockets) : Unwritable(p)

ServiceSpec == Init /\ [][ServiceNext]_vars

(***************************************************************************)
(* Properties.  step describes the last call of fit: the model before it   *)
(* (pre), the point, the neighbourhood the query returned, the vertex the  *)
(* update produced, the model after update (updated) and the model after   *)
(* update_local_graph (refined).                                           *)
(***************************************************************************)

One == FromInt(1)

Fitted == step.kind # "none"

\* The closest component of the last fit and its data before the fit.
Primary == step.neighborhood[1]

OldPrimary == step.pre.heap[Primary]

\* C1: fitting a point into an empty model takes the init branch; afterwards
\* the model holds exactly one ball, centred at the point, with infinite
\* radius, mass 0 and no neighbour: no decay pass ran, the sentinel is there.
C1_InitOnEmpty ==
    (Fitted /\ step.pre.graph = <<>>) =>
        /\ step.kind = "init"
        /\ Len(graph) = 1
        /\ heap[graph[1]] = [mu |-> step.point, sigma |-> Infinity,
                             weight |-> 0, neighbors |-> <<>>]

C1_Witness == step.kind = "init" /\ fits = 1 /\ Len(graph) = 1

C3_AbsorbUpdate ==
    step.kind = "absorb" =>
        LET d   == euclid_dist(OldPrimary.mu, step.point)
            new == step.updated.heap[Primary]
        IN  /\ step.d = d
            /\ new.mu = real_combine(OldPrimary.mu, OldPrimary.weight, step.point, One)
            /\ new.sigma = IF OldPrimary.weight = 0 THEN d
                           ELSE Div(Add(Mul(OldPrimary.sigma, OldPrimary.weight), d),
                                    Add(OldPrimary.weight, One))
            /\ new.weight = Add(OldPrimary.weight, One)
            /\ new.neighbors = OldPrimary.neighbors

C3_Witness ==
    /\ step.kind = "absorb"
    /\ OldPrimary.weight > One
    /\ OldPrimary.mu # step.point
    /\ step.updated.heap[Primary].sigma # OldPrimary.sigma

\* C4: the second point ever fitted is absorbed by the sentinel: after the
\* second fit the model has exactly one ball, centred at the second point,
\* with radius dist(p1, p2) and mass 1.
C4_SecondFit ==
    fits = 2 =>
        LET p1 == step.pre.heap[step.pre.graph[1]].mu
            p2 == step.point
        IN  /\ step.kind = "absorb"
            /\ Len(graph) = 1
            /\ heap[graph[1]].mu = p2
            /\ heap[graph[1]].sigma = euclid_dist(p1, p2)
            /\ heap[graph[1]].weight = One

C4_Witness ==
    /\ fits = 2
    /\ step.pre.heap[step.pre.graph[1]].sigma = Infinity
    /\ step.pre.heap[step.pre.graph[1]].mu # step.point
    /\ heap[graph[1]].mu = step.point

\* The vertex the split of the last fit created, and its neighbourhood N.
NewBall == step.pre.nextId

\* C5: a split creates a ball with centre combine(primary centre, -1, point,
\* 5), radius d / EXTRA_THRESHOLD and mass 1, appended at the end of the
\* graph, whose neighbour list is the neighbourhood of the point: the up to
\* two pre-existing balls the query returned, the primary first.
C5_SplitBall ==
    step.kind = "split" =>
        LET d        == euclid_dist(OldPrimary.mu, step.point)
            expected == [mu        |-> real_combine(OldPrimary.mu, Neg(One),
                                                    step.point, FromInt(5)),
                         sigma     |-> Div(d, EXTRA_THRESHOLD),
                         weight    |-> One,
                         neighbors |-> step.neighborhood]
        IN  /\ step.updated.graph = Append(step.pre.graph, NewBall)
            /\ step.updated.heap[NewBall] = expected
            /\ Len(step.neighborhood) = Min(2, Len(step.pre.graph))
            /\ Range(step.neighborhood) \subseteq Range(step.pre.graph)
            /\ step.neighborhood[1] = Primary
            /\ Len(step.neighborhood) = 2 => step.neighborhood[2] # Primary
            /\ graph # <<>>
            /\ graph[Len(graph)] = NewBall
            /\ heap[NewBall] = expected

C5_Witness ==
    /\ step.kind = "split"
    /\ Len(step.neighborhood) = 2
    /\ OldPrimary.mu # step.point
    /\ Len(graph) >= 3

IsSentinel(v) ==
    /\ graph = <<v>>
    /\ heap[v].sigma = Infinity
    /\ heap[v].weight = 0

\* C7 as claimed: after every fit, every ball has a mass above
\* DECAY_THRESHOLD.
C7_AllAboveThreshold ==
    Fitted => \A v \in Range(graph) : Gt(heap[v].weight, DECAY_THRESHOLD)

\* C7 amended: after every fit but the first, every ball has a mass above
\* DECAY_THRESHOLD; after the first fit the model is the sentinel alone,
\* whose mass is 0.
C7_AboveThresholdButSentinel ==
    /\ fits = 1 => IsSentinel(graph[1])
    /\ fits >= 2 => \A v \in Range(graph) : Gt(heap[v].weight, DECAY_THRESHOLD)

\* A ball was pruned by the last fit.
C7_Witness ==
    /\ fits >= 2
    /\ \E v \in Range(step.refined.graph) : v \notin Range(graph)

\* C8: after every fit every ball has a finite radius above 0, except the
\* sentinel (the only ball, radius infinite, mass 0), which is gone once the
\* second point has been fitted.
C8_RadiusPositive ==
    Fitted =>
        \A v \in Range(graph) :
            \/ heap[v].sigma # Infinity /\ heap[v].sigma # NaN /\ Gt(heap[v].sigma, 0)
            \/ IsSentinel(v) /\ fits = 1

\* The candidate the last fit refined the primary against, if any.
StepCandidate ==
    IF step.kind = "split" THEN <<step.vertex>>
    ELSE IF step.kind = "absorb" /\ Len(step.neighborhood) >= 2
         THEN <<step.neighborhood[2]>>
    ELSE <<>>

NoDuplicate(s) == \A i, j \in 1..Len(s) : s[i] = s[j] => i = j

\* C9: after every fit, the neighbour list of every ball has at most
\* MAX_NEIGHBORS entries, names no ball twice and does not name its owner.
C9_NeighborLists ==
    \A v \in Range(graph) :
        /\ Len(heap[v].neighbors) <= MAX_NEIGHBORS
        /\ NoDuplicate(heap[v].neighbors)
        /\ v \notin Range(heap[v].neighbors)

\* The refinement of the last fit built a list of three and dropped the last.
C9_Witness ==
    /\ StepCandidate # <<>>
    /\ Len(rebuild_merge(step.updated, Primary,
              rebuild_neighborhood(step.updated, Primary,
                  iter_neighbors(step.updated, Primary),
                  StepCandidate[1])).neighborhood) = 3
    /\ Primary \in Range(graph)
    /\ Len(heap[Primary].neighbors) = 2

\* C10: after every fit, iterating the neighbours of any ball yields only
\* balls that are in the graph; a reference to a removed ball is skipped.
C10_NeighborsAreLive ==
    \A v \in Range(graph) :
        /\ Range(iter_neighbors(Model, v)) \subseteq Range(graph)
        /\ iter_neighbors(Model, v) =
              SelectSeq(heap[v].neighbors, LAMBDA n : n \in Range(graph))

\* A ball of the graph still holds a reference to a ball that was removed.
C10_Witness ==
    \E v \in Range(graph) :
        /\ \E i \in 1..Len(heap[v].neighbors) : heap[v].neighbors[i] \notin Range(graph)
        /\ Len(iter_neighbors(Model, v)) < Len(heap[v].neighbors)

\* The neighbour list L the refinement of the last fit rebuilt for the
\* primary, before the merge test (empty when the fit refined nothing).
StepRebuilt ==
    IF StepCandidate = <<>> THEN <<>>
    ELSE rebuild_neighborhood(step.updated, Primary,
                              iter_neighbors(step.updated, Primary),
                              StepCandidate[1])

\* The merge gate of the last fit held for the primary and L[0].
StepMerged ==
    /\ StepRebuilt # <<>>
    /\ LET p == step.updated.heap[Primary]
           o == step.updated.heap[StepRebuilt[1]]
       IN  Lt(euclid_dist(p.mu, o.mu), Mul(Add(p.sigma, o.sigma), MERGE_THRESHOLD))

RECURSIVE MassFrom(_, _, _)
MassFrom(m, s, i) ==
    IF i > Len(s) THEN 0 ELSE m.heap[s[i]].weight + MassFrom(m, s, i + 1)

\* The sum of the masses of the balls of a model.
TotalMass(m) == MassFrom(m, m.graph, 1)

C12_ZeroMassPruned ==
    /\ step.kind \in {"absorb", "split"} =>
          \A v \in Range(step.refined.graph) :
              step.refined.heap[v].weight = 0 => v \notin Range(graph)
    /\ \A v \in Range(graph) : heap[v].weight = 0 => IsSentinel(v) /\ fits = 1
    /\ \A v \in Range(graph) :
          v \notin Range(decay([Model EXCEPT !.heap[v].weight = 0], v).graph)

\* The last fit merged a ball of positive mass away and ended without it,
\* with other balls left.
C12_Witness ==
    /\ StepMerged
    /\ step.updated.heap[StepRebuilt[1]].weight > 0
    /\ step.refined.heap[StepRebuilt[1]].weight = 0
    /\ StepRebuilt[1] \notin Range(graph)
    /\ Len(graph) >= 2

\* C13: after n >= 1 points have been fitted, no ball has a negative mass and
\* the sum of the masses of all balls is at least 0 and at most n.
C13_TotalMassBounded ==
    Fitted =>
        /\ \A v \in Range(graph) : heap[v].weight >= 0
        /\ TotalMass(Model) >= 0
        /\ TotalMass(Model) <= FromInt(fits)

\* Several balls whose masses have decayed, after a fit that added a point.
C13_Witness ==
    /\ fits >= 4
    /\ Len(graph) >= 2
    /\ TotalMass(Model) > FromInt(fits - 2)
    /\ TotalMass(Model) < FromInt(fits - 1)

\* C14: in every fit, a ball that is not the primary of the fit ends with a
\* mass less than or equal to the one it had before the fit (the record of a
\* pruned ball included); a ball whose mass grew is the primary.
C14_OnlyPrimaryGains ==
    step.kind \in {"absorb", "split"} =>
        /\ \A v \in Range(step.pre.graph) \ {Primary} :
              heap[v].weight <= step.pre.heap[v].weight
        /\ \A v \in Range(step.pre.graph) :
              heap[v].weight > step.pre.heap[v].weight => v = Primary

\* The primary gained the mass of a merged neighbour on top of the point
\* while another ball, still in the graph, lost mass.
C14_Witness ==
    /\ StepMerged
    /\ heap[Primary].weight > Add(OldPrimary.weight, One)
    /\ \E v \in Range(graph) \ {Primary} :
          /\ v \in Range(step.pre.graph)
          /\ heap[v].weight < step.pre.heap[v].weight

\* C15: a ball that is never again the primary nor the vertex of a fit has
\* its mass multiplied by DECAY_FACTOR by every fit, stays in the model as
\* long as the decayed mass is above DECAY_THRESHOLD, leaves it on the first
\* fit whose decayed mass is at or below DECAY_THRESHOLD, and does leave it
\* after finitely many fits.
C15_BystanderPruned ==
    /\ [][bystander.retained =>
             /\ bystander'.weight < bystander.weight
             /\ (bystander.weight - bystander'.weight) * Scale
                    - bystander.weight * (Scale - DECAY_FACTOR)
                    \in (0 - Scale \div 2) .. (Scale \div 2)
             /\ bystander'.retained <=> bystander'.weight > FineThreshold]_bystander
    /\ [][~bystander.retained => UNCHANGED bystander]_bystander
    /\ <>(~bystander.retained)

\* The bystander has been pruned, at a weight that is not above the
\* threshold, after decaying from mass 1.
C15_Witness ==
    /\ ~bystander.retained
    /\ bystander.weight <= FineThreshold
    /\ bystander.weight > 0

\* The model before the last fit held a ball of finite positive radius
\* centred exactly at the point.
StepCentred ==
    \E v \in Range(step.pre.graph) :
        /\ step.pre.heap[v].mu = step.point
        /\ step.pre.heap[v].sigma # Infinity
        /\ step.pre.heap[v].sigma # NaN
        /\ step.pre.heap[v].sigma > 0

\* C16: fitting a point p into a model that holds a ball of finite positive
\* radius centred exactly at p does not increase the number of balls.
C16_CentredFitDoesNotGrow ==
    StepCentred => Len(graph) <= Len(step.pre.graph)

\* The places in the iteration of the candidates a call selected.
SelectedPlaces ==
    {selection.neighborhood[k][1] : k \in 1..Len(selection.neighborhood)}

\* C17: the two-nearest selection over n candidates returns min(2, n)
\* distinct candidates, each with its own distance, in ascending order of
\* distance, and no candidate left out is closer than a selected one; no
\* candidate gives the empty result and one candidate gives that one.
C17_TwoNearest ==
    LET iter == selection.iter
        r    == selection.neighborhood
    IN  /\ Len(r) = Min(2, Len(iter))
        /\ \A k \in 1..Len(r) :
              /\ r[k][1] \in 1..Len(iter)
              /\ r[k] = iter[r[k][1]]
        /\ Len(r) = 2 => r[1][1] # r[2][1] /\ r[1][2] <= r[2][2]
        /\ \A i \in 1..Len(iter) : \A k \in 1..Len(r) :
              i \notin SelectedPlaces => iter[i][2] >= r[k][2]
        /\ Len(iter) = 0 => r = <<>>
        /\ Len(iter) = 1 => r = <<iter[1]>>

\* A call on four candidates whose two nearest come last, the nearest at
\* the very end.
C17_Witness ==
    /\ Len(selection.iter) = 4
    /\ selection.neighborhood = <<selection.iter[4], selection.iter[3]>>
    /\ selection.iter[4][2] < selection.iter[3][2]
    /\ selection.iter[3][2] < selection.iter[2][2]
    /\ selection.iter[2][2] < selection.iter[1][2]

\* C18: the selection is stable: among candidates at equal distance the one
\* the iteration yields first is ranked first, and when only one of them is
\* selected it is the earlier one.
C18_StableSelection ==
    LET iter == selection.iter
        r    == selection.neighborhood
    IN  /\ Len(r) >= 1 =>
              \A i \in 1..Len(iter) : iter[i][2] = r[1][2] => i >= r[1][1]
        /\ Len(r) = 2 =>
              /\ \A i \in 1..Len(iter) \ {r[1][1]} :
                    iter[i][2] = r[2][2] => i >= r[2][1]
              /\ r[1][2] = r[2][2] => r[1][1] < r[2][1]

\* Three candidates at the second-smallest distance, the nearest one
\* yielded last: only the first of the three is selected.
C18_Witness ==
    /\ Len(selection.iter) = 4
    /\ selection.iter[1][2] = selection.iter[2][2]
    /\ selection.iter[2][2] = selection.iter[3][2]
    /\ selection.iter[4][2] < selection.iter[1][2]
    /\ selection.neighborhood = <<selection.iter[4], selection.iter[1]>>

\* The normalized distance D from the point of the last fit to a ball of
\* the model the fit started from.
StepD(v) == normalize(step.point, step.pre.heap[v])

\* a <= b for two numbers, which holds for no NaN.
Le(a, b) == a # NaN /\ b # NaN /\ a <= b

\* C19: the neighbourhood of a point is made of the min(2, n) balls of the
\* graph with the smallest normalized distance D(point, ball) =
\* dist(point, centre) / radius, in ascending order of D: no ball left out
\* has a smaller D than a ball returned.
C19_RankedByNormalized ==
    Fitted =>
        LET N == step.neighborhood
        IN  /\ Len(N) = Min(2, Len(step.pre.graph))
            /\ Range(N) \subseteq Range(step.pre.graph)
            /\ Len(N) = 2 => N[1] # N[2] /\ Le(StepD(N[1]), StepD(N[2]))
            /\ \A v \in Range(step.pre.graph) \ Range(N) :
                  \A k \in 1..Len(N) : Le(StepD(N[k]), StepD(v))

\* The same ranking for the models in which every radius is positive.
RankedWhenRadiiPositive ==
    (\A v \in Range(step.pre.graph) : step.pre.heap[v].sigma > 0)
        => C19_RankedByNormalized

\* A fit whose primary, the nearest by D, is not the nearest by raw distance.
RankedNotByRawDistance ==
    /\ Len(step.pre.graph) >= 3
    /\ \A v \in Range(step.pre.graph) : step.pre.heap[v].sigma > 0
    /\ \E v \in Range(step.pre.graph) :
          euclid_dist(step.pre.heap[v].mu, step.point)
              < euclid_dist(OldPrimary.mu, step.point)

\* The normalized distance from the centre of ball a to ball b.
LoadD(a, b) == normalize(heap[a].mu, heap[b])

\* C20: load yields a model whose balls are the balls of the list in the
\* order of the list, and in which the neighbour list of each ball is made
\* of the min(2, n - 1) nearest, by normalized distance from its centre and
\* in ascending order, of all the other balls of the list, a ball with the
\* same centre, radius and mass as this one included.
C20_LoadRebuildsNeighbors ==
    step.kind = "load" =>
        /\ Len(graph) = Len(step.data)
        /\ \A i \in 1..Len(graph) : Data(heap, graph[i]) = step.data[i]
        /\ \A i, j \in 1..Len(graph) : graph[i] = graph[j] => i = j
        /\ \A v \in Range(graph) :
              LET L == heap[v].neighbors
              IN  /\ Len(L) = Min(2, Len(graph) - 1)
                  /\ Range(L) \subseteq Range(graph) \ {v}
                  /\ NoDuplicate(L)
                  /\ Len(L) = 2 => Le(LoadD(v, L[1]), LoadD(v, L[2]))
                  /\ \A o \in Range(graph) \ (Range(L) \cup {v}) :
                        \A k \in 1..Len(L) : Le(LoadD(v, L[k]), LoadD(v, o))

\* The same for the lists in which no two balls are equal.
LoadRebuildsWhenDistinct ==
    (\A i, j \in 1..Len(step.data) : step.data[i] = step.data[j] => i = j)
        => C20_LoadRebuildsNeighbors

\* The last output run handed to the sink.
LastWritten == stream.written[Len(stream.written)]

\* The model load builds from the last output.
Reloaded == load(Model_new, read_balls(LastWritten))

\* The normalized distance from the centre of ball a to ball b in model m.
ModelD(m, a, b) == normalize(m.heap[a].mu, m.heap[b])

\* The neighbour list of every ball of m is made of the two nearest of the
\* other balls, in ascending order.
TwoNearestLists(m) ==
    \A v \in Range(m.graph) :
        LET L == m.heap[v].neighbors
        IN  /\ Len(L) = Min(2, Len(m.graph) - 1)
            /\ Range(L) \subseteq Range(m.graph) \ {v}
            /\ NoDuplicate(L)
            /\ Len(L) = 2 => Le(ModelD(m, v, L[1]), ModelD(m, v, L[2]))
            /\ \A o \in Range(m.graph) \ (Range(L) \cup {v}) :
                  \A k \in 1..Len(L) : Le(ModelD(m, v, L[k]), ModelD(m, v, o))

\* C21: the model load builds from the serialization of a model has the
\* same balls, centre, radius and mass, in the same order, and neighbour
\* lists made of the two nearest of the other balls.
C21_RoundTrip ==
    stream.written # <<>> =>
        /\ Len(Reloaded.graph) = Len(graph)
        /\ \A i \in 1..Len(graph) :
              Data(Reloaded.heap, Reloaded.graph[i]) = Data(heap, graph[i])
        /\ TwoNearestLists(Reloaded)

\* The centres and the masses, which are written as they are stored, come
\* back, in the same order.
RoundTripCentresAndMasses ==
    stream.written # <<>> =>
        /\ Len(Reloaded.graph) = Len(graph)
        /\ \A i \in 1..Len(graph) :
              /\ Data(Reloaded.heap, Reloaded.graph[i]).mu = Data(heap, graph[i]).mu
              /\ Data(Reloaded.heap, Reloaded.graph[i]).weight
                    = Data(heap, graph[i]).weight

\* The radius that comes back is the square root of the one stored.
RoundTripRadiusIsRoot ==
    stream.written # <<>> =>
        \A i \in 1..Len(graph) :
            Data(Reloaded.heap, Reloaded.graph[i]).sigma
                = sqrt(Data(heap, graph[i]).sigma)

\* Squaring the radius that comes back gives the one stored.
RoundTripRadiusSquaredBack ==
    stream.written # <<>> =>
        \A i \in 1..Len(graph) :
            LET back == Data(Reloaded.heap, Reloaded.graph[i]).sigma
            IN  Mul(back, back) = Data(heap, graph[i]).sigma

\* The step is a turn of the loop of run.
IsTurn == stream'.consumed = stream.consumed + 1

\* C22: run does not batch.  Every record that is read, parsed and written
\* without failure is fit and followed by one call of the sink, on the
\* serialization of the model as that fit left it, the earlier outputs
\* being what they were: after k such records the sink was called k times;
\* at the end of the input run returns Ok and calls the sink no more.
C22_NoBatching ==
    [][/\ stream'.status \in {"running", "ok"} =>
              Len(stream'.written) = stream'.consumed
       /\ IsTurn /\ stream'.status = "running" =>
              /\ from_str(stream'.input.text).ok
              /\ step'.point = from_str(stream'.input.text).point
              /\ Model' = fit(Model, step'.point).m
              /\ stream'.written = Append(stream.written, serialize_model(Model'))
       /\ ~IsTurn =>
              /\ stream.status = "running" /\ stream'.status = "ok"
              /\ stream'.written = stream.written /\ Model' = Model]_vars

C22_Witness ==
    /\ stream.status = "ok" /\ stream.consumed = 3
    /\ Len(stream.written) = 3
    /\ Len(stream.written[1]) = 1 /\ Len(stream.written[3]) = 2
    /\ stream.written[3] = serialize_model(Model)

\* C23: run stops at the first failure and returns it.  A turn whose item
\* is an error, or whose text is no point, fits nothing and calls the sink
\* for nothing; a turn whose output the sink refuses ends on that call; and
\* once run has returned, no item is pulled and the sink is not called.
C23_StopsAtFirstFailure ==
    [][/\ stream.status = "running"
       /\ IsTurn =>
            LET item   == stream'.input
                parsed == from_str(item.text)
            IN  /\ ~item.ok =>
                      /\ stream'.status = "input error"
                      /\ stream'.written = stream.written /\ Model' = Model
                /\ item.ok /\ ~parsed.ok =>
                      /\ stream'.status = "parse error"
                      /\ stream'.written = stream.written /\ Model' = Model
                /\ item.ok /\ parsed.ok =>
                      /\ Len(stream'.written) = Len(stream.written) + 1
                      /\ stream'.status =
                            IF stream'.sink_ok THEN "running" ELSE "sink error"]_vars

C23_Witness ==
    /\ stream.status = "parse error" /\ stream.consumed = 3
    /\ Len(stream.written) = 2 /\ fits = 2

\* The balls of the model the last fit started from that are still in the
\* graph, in the order they had.
Survivors == SelectSeq(step.pre.graph, LAMBDA v : v \in Range(graph))

IsDispatch == Len(service'.models) < Len(service.models)

Peers == Range(service.peers)

\* The texts of the frames written on socket p.
FrameTexts(sv, p) ==
    [k \in 1..Len(sv.sockets[p].frames) |-> sv.sockets[p].frames[k].text]

\* Socket p is written msg once more in the step.
WrittenOnce(p, msg) ==
    /\ Len(service'.sockets[p].frames) = Len(service.sockets[p].frames) + 1
    /\ FrameTexts(service', p) = Append(FrameTexts(service, p), msg)
    /\ SubSeq(service'.sockets[p].frames, 1, Len(service.sockets[p].frames))
          = service.sockets[p].frames

\* C25: every output of the fit loop goes through the models channel to one
\* broadcast, in which it is written once, as one text message, on every
\* socket that is among the peers and writable, and on no other; a peer
\* that is not writable is removed from the peers while the others stay in
\* their order, and a socket that is not among the peers is written no
\* more.  So a peer has been written, once each and in their order, the
\* outputs broadcast since it was registered.
C25_Broadcast ==
    [][/\ IF IsDispatch
          THEN /\ service'.models = Tail(service.models)
               /\ service'.peers =
                     SelectSeq(service.peers,
                               LAMBDA p : service.sockets[p].can_write)
               /\ \A p \in 1..Len(service.sockets) :
                     IF p \in Peers /\ service.sockets[p].can_write
                     THEN WrittenOnce(p, Head(service.models))
                     ELSE service'.sockets[p].frames = service.sockets[p].frames
          ELSE \A p \in 1..Len(service.sockets) :
                   service'.sockets[p].frames = service.sockets[p].frames
       /\ Len(stream'.written) > Len(stream.written) =>
             service'.models = Append(service.models, serialize_model(Model'))
       /\ \A p \in Range(service'.peers) :
             FrameTexts(service', p)
               = SubSeq(stream'.written, service'.sockets[p].joined + 1,
                        Len(stream'.written) - Len(service'.models))]_vars

C25_Witness ==
    /\ Len(service.sockets) = 3 /\ service.peers = <<3>>
    /\ service.sockets[2].role = "models" /\ ~service.sockets[2].can_write
    /\ Len(service.sockets[2].frames) = 1
    /\ Len(service.sockets[3].frames) = 2
    /\ service.sockets[3].frames[1].text # service.sockets[3].frames[2].text
    /\ service.models = <<>>

\* The peers whose write fails in the step.
FailedPeers ==
    {p \in Peers :
        /\ Len(service'.sockets[p].frames) > Len(service.sockets[p].frames)
        /\ ~service'.sockets[p].frames[Len(service'.sockets[p].frames)].ok}

\* C26: when the write of an output fails on a peer, that peer is removed
\* from the peers, the output is written on every other writable peer all
\* the same, and the dispatcher and the fit loop go on.
C26_WriteErrorDropsSubscriber ==
    [][IsDispatch =>
          /\ \A p \in FailedPeers : p \notin Range(service'.peers)
          /\ \A p \in Peers \ FailedPeers :
                service.sockets[p].can_write =>
                    WrittenOnce(p, Head(service.models))
          /\ stream'.status = "running"]_vars

\* The failure of a write stops nothing: the other peers are written the
\* output, and the peer whose write failed stays among the peers.
WriteErrorIsLocal ==
    [][IsDispatch =>
          /\ \A p \in FailedPeers : p \in Range(service'.peers)
          /\ \A p \in Peers \ FailedPeers :
                service.sockets[p].can_write =>
                    WrittenOnce(p, Head(service.models))
          /\ stream'.status = "running"]_vars

\* A peer whose write failed is written the next output again.
WrittenAgainAfterError ==
    \E p \in Peers :
        /\ Len(service.sockets[p].frames) = 2
        /\ ~service.sockets[p].frames[1].ok

\* The reader of socket c reads a message in the step.
IsRead(c) == service'.sockets[c].reads = service.sockets[c].reads + 1

\* C27: on a connection to /ws/points, a text message puts exactly its text
\* on the points channel, from which the fit loop takes the texts one by
\* one in their order; a binary message puts nothing and the reader goes
\* on; a close message or a read error ends the reader and puts nothing;
\* and a socket whose reader has ended forwards nothing any more.
C27_PointsReader ==
    [][/\ \A c \in 1..Len(service.sockets) :
             /\ IsRead(c) =>
                   LET msg == service'.sockets[c].last
                   IN  /\ service.sockets[c].role = "points"
                       /\ service.sockets[c].reading
                       /\ msg.ok /\ msg.type = "text" =>
                             /\ service'.points = Append(service.points, msg.text)
                             /\ service'.sockets[c].forwarded
                                   = service.sockets[c].forwarded + 1
                             /\ service'.sockets[c].reading
                       /\ msg.ok /\ msg.type = "binary" =>
                             /\ service'.points = service.points
                             /\ service'.sockets[c].reading
                       /\ ~msg.ok \/ msg.type = "close" =>
                             /\ service'.points = service.points
                             /\ ~service'.sockets[c].reading
             /\ ~service.sockets[c].reading =>
                   /\ ~service'.sockets[c].reading
                   /\ service'.sockets[c].forwarded = service.sockets[c].forwarded
             /\ ~IsRead(c) =>
                   service'.sockets[c].forwarded = service.sockets[c].forwarded
       /\ Len(service'.points) > Len(service.points) =>
             \E c \in 1..Len(service.sockets) : IsRead(c)
       /\ Len(service'.points) < Len(service.points) =>
             /\ service'.points = Tail(service.points)
             /\ stream'.input = Item(TRUE, Head(service.points))
             /\ stream'.consumed = stream.consumed + 1]_vars

C27_Witness ==
    \E c \in 1..Len(service.sockets) :
        /\ service.sockets[c].role = "points" /\ ~service.sockets[c].reading
        /\ service.sockets[c].reads = 2 /\ service.sockets[c].forwarded = 1
        /\ service.sockets[c].last.type = "close"
        /\ stream.consumed = 1 /\ Len(stream.written) = 1

\* The live neighbour list L of the primary when the refinement starts.
StepL == iter_neighbors(step.updated, Primary)

\* The raw distance from the centre of ball v to the centre of the primary
\* when the refinement starts.
DistToPrimary(v) ==
    euclid_dist(step.updated.heap[v].mu, step.updated.heap[Primary].mu)

\* The rule of the scan that applies at position i (from 0) of L for
\* candidate c, if one does; same(a, b) tells whether a is taken for b.
ScanRule(c, i, same(_, _)) ==
    IF i = Len(StepL) THEN "append"
    ELSE IF same(StepL[i + 1], c) THEN "keep"
    ELSE IF Gt(DistToPrimary(StepL[i + 1]), DistToPrimary(c)) THEN "insert"
    ELSE "next"

\* The list the scan of positions 0..MAX_NEIGHBORS-1 leaves.
Scanned(c, same(_, _)) ==
    LET stops == {i \in 0..(MAX_NEIGHBORS - 1) :
                     /\ i <= Len(StepL)
                     /\ ScanRule(c, i, same) # "next"
                     /\ \A k \in 0..(i - 1) : ScanRule(c, k, same) = "next"}
    IN  IF stops = {} THEN StepL
        ELSE LET i == CHOOSE i \in stops : TRUE
             IN  CASE ScanRule(c, i, same) = "append" -> Append(StepL, c)
                   [] ScanRule(c, i, same) = "keep"   -> StepL
                   [] ScanRule(c, i, same) = "insert" ->
                        SubSeq(StepL, 1, i) \o <<c>> \o SubSeq(StepL, i + 1, Len(StepL))

\* The list the primary stores after the merge step on the scanned list R.
Committed(R) ==
    LET p      == step.updated.heap[Primary]
        o      == step.updated.heap[R[1]]
        merged == Lt(euclid_dist(p.mu, o.mu),
                     Mul(Add(p.sigma, o.sigma), MERGE_THRESHOLD))
        rest   == IF merged THEN Tail(R) ELSE R
    IN  IF Len(rest) > 2 THEN SubSeq(rest, 1, Len(rest) - 1) ELSE rest

SameNode(a, b) == a = b

SameValue(a, b) == Data(step.updated.heap, a) = Data(step.updated.heap, b)

\* C28: the refinement of the primary against a candidate scans the
\* positions i = 0..MAX_NEIGHBORS-1 of the live neighbour list L of the
\* primary and stops at the first where a rule applies: i = len(L) appends
\* the candidate; L[i] being the candidate leaves L as it is; raw
\* dist(L[i], primary) > raw dist(candidate, primary) inserts the candidate
\* at i.  After the merge step a list longer than 2 loses its last entry
\* and the result is the neighbour list of the primary.
C28_Refinement ==
    StepCandidate # <<>> =>
        /\ rebuild_neighborhood(step.updated, Primary, StepL, StepCandidate[1])
              = Scanned(StepCandidate[1], SameNode)
        /\ step.refined.heap[Primary].neighbors
              = Committed(Scanned(StepCandidate[1], SameNode))

\* The same scan in which L[i] is taken for the candidate when it has the
\* centre, the radius and the mass of the candidate.
RefinementByValue ==
    StepCandidate # <<>> =>
        /\ rebuild_neighborhood(step.updated, Primary, StepL, StepCandidate[1])
              = Scanned(StepCandidate[1], SameValue)
        /\ step.refined.heap[Primary].neighbors
              = Committed(Scanned(StepCandidate[1], SameValue))

\* A ball of L other than the candidate has the centre, the radius and the
\* mass of the candidate.
CandidateHasTwin ==
    /\ StepCandidate # <<>>
    /\ \E v \in Range(StepL) :
          v # StepCandidate[1] /\ SameValue(v, StepCandidate[1])

\* The scan is as C28 states when the candidate has no twin in L.
RefinementWithoutTwin == ~CandidateHasTwin => C28_Refinement

\* The entries of list L of ball owner are in ascending order of the
\* normalized distance from the centre of owner, in model m.
Ascending(m, owner, L) ==
    \A k \in 1..(Len(L) - 1) :
        Le(normalize(m.heap[owner].mu, m.heap[L[k]]),
           normalize(m.heap[owner].mu, m.heap[L[k + 1]]))

\* C29: a neighbour list is in ascending order of the normalized distance
\* from its owner when it is written: the list of the ball a split creates,
\* the list the refinement gives the primary, the lists load builds.
C29_ListsAscending ==
    /\ step.kind = "split" =>
          Ascending(step.updated, NewBall, step.updated.heap[NewBall].neighbors)
    /\ StepCandidate # <<>> =>
          Ascending(step.refined, Primary, step.refined.heap[Primary].neighbors)
    /\ step.kind = "load" =>
          \A v \in Range(graph) : Ascending(Model, v, heap[v].neighbors)

\* The radii of the model the last fit started from are positive, and so
\* are those of the model it left.
RadiiPositive ==
    /\ \A v \in Range(step.pre.graph) : step.pre.heap[v].sigma > 0
    /\ \A v \in Range(step.refined.graph) : step.refined.heap[v].sigma > 0

\* Ball owner of model m has a list of two whose first entry is farther
\* from it, by more than 1 in normalized distance, than its second.
OutOfOrder(m, owner) ==
    LET L == m.heap[owner].neighbors
    IN  /\ Len(L) = 2
        /\ Gt(normalize(m.heap[owner].mu, m.heap[L[1]]),
              Add(normalize(m.heap[owner].mu, m.heap[L[2]]), One))

\* A split, in a model whose radii are all positive, that gives the new
\* ball a list out of order.
SplitListOutOfOrder ==
    step.kind = "split" /\ RadiiPositive /\ OutOfOrder(step.updated, NewBall)

\* A refinement, in a model whose radii are all positive, that gives the
\* primary a list out of order.
RefinedListOutOfOrder ==
    StepCandidate # <<>> /\ RadiiPositive /\ OutOfOrder(step.refined, Primary)

\* The lists load builds are in ascending order.
LoadListsAscending ==
    step.kind = "load" =>
        \A v \in Range(graph) : Ascending(Model, v, heap[v].neighbors)

NeverSame(a, b) == FALSE

\* C30: inside a fit a ball is told from another by the node, not by the
\* value.  A candidate that is not in the list L of the primary is taken
\* for no entry of L, whatever the centre, radius and mass of the entries;
\* and the decay pass spares the vertex only: every other ball, one with
\* the centre, radius and mass of the vertex included, has its mass
\* multiplied by DECAY_FACTOR.
C30_IdentityByNode ==
    /\ StepCandidate # <<>> /\ StepCandidate[1] \notin Range(StepL) =>
          rebuild_neighborhood(step.updated, Primary, StepL, StepCandidate[1])
              = Scanned(StepCandidate[1], NeverSame)
    /\ step.kind \in {"absorb", "split"} =>
          \A v \in Range(graph) \ {step.vertex} :
              heap[v].weight = Mul(step.refined.heap[v].weight, DECAY_FACTOR)

\* The decay pass spares the vertex and no other ball.
DecaySparesOnlyVertex ==
    step.kind \in {"absorb", "split"} =>
        /\ \A v \in Range(graph) \ {step.vertex} :
              heap[v].weight = Mul(step.refined.heap[v].weight, DECAY_FACTOR)
        /\ step.vertex \in Range(graph) =>
              heap[step.vertex].weight = step.refined.heap[step.vertex].weight

\* A ball with the centre, radius and mass of the vertex went through the
\* decay pass.
VertexTwinDecayed ==
    /\ step.kind = "split"
    /\ \E v \in Range(graph) \ {step.vertex} :
          /\ Data(step.refined.heap, v) = Data(step.refined.heap, step.vertex)
          /\ heap[v].weight < heap[step.vertex].weight

\* C31: after a fit that splits, the ball the split created is in the model
\* with mass exactly 1: it is the vertex the decay pass spares, the merge
\* step of that fit has not emptied it, and the primary it was split from
\* has its mass multiplied by DECAY_FACTOR like every other ball.
C31_SplitBallKeepsMassOne ==
    step.kind = "split" =>
        /\ step.vertex = NewBall
        /\ step.refined.heap[NewBall].weight = One
        /\ NewBall \in Range(graph)
        /\ heap[NewBall].weight = One
        /\ \A v \in Range(graph) \ {NewBall} :
              heap[v].weight = Mul(step.refined.heap[v].weight, DECAY_FACTOR)
        /\ Primary \in Range(graph) =>
              heap[Primary].weight < step.refined.heap[Primary].weight

\* A split next to which the primary, of mass above 1, is decayed.
C31_Witness ==
    /\ step.kind = "split"
    /\ heap[NewBall].weight = One
    /\ Primary \in Range(graph)
    /\ step.refined.heap[Primary].weight > One
    /\ heap[Primary].weight = Mul(step.refined.heap[Primary].weight, DECAY_FACTOR)
    /\ Len(graph) >= 2

\* C32: every fit runs to completion: no fit aborts; whenever the refinement
\* runs, the list it hands to the merge step is not empty, so that its first
\* element exists, and the primary is not in it, so that the merge partner
\* is never the primary itself; every vertex of the graph and every vertex
\* the primary's list resolves to is a live allocation, and every stored
\* reference names an allocation that was made, so that adding, iterating,
\* setting neighbours and reading or writing a ball operate on valid nodes.
C32_FitNeverAborts ==
    /\ step.kind # "panic"
    /\ StepCandidate # <<>> =>
          /\ StepRebuilt # <<>>
          /\ \A i \in 1..Len(StepRebuilt) :
                /\ StepRebuilt[i] # Primary
                /\ StepRebuilt[i] \in DOMAIN step.updated.heap
                /\ step.updated.strong[StepRebuilt[i]] > 0
          /\ ~update_local_graph_aborts(step.updated, Primary, StepCandidate[1])
    /\ \A v \in Range(graph) :
          /\ v \in DOMAIN heap /\ v \in DOMAIN strong /\ strong[v] > 0
          /\ \A i \in 1..Len(heap[v].neighbors) :
                heap[v].neighbors[i] \in DOMAIN strong
    /\ DOMAIN heap = 1..(nextId - 1) /\ DOMAIN strong = DOMAIN heap

\* A refinement that merged: the merge gate held on the first element of the
\* refined list, which is not the primary, and the fit returned.
C32_Witness ==
    /\ step.kind = "absorb" /\ StepCandidate # <<>>
    /\ should_merge(step.updated, Primary, StepRebuilt[1])[1]
    /\ StepRebuilt[1] # Primary
    /\ step.refined.heap[StepRebuilt[1]].weight = 0
    /\ Primary \in Range(graph)

\* s is t with some elements left out.
RECURSIVE IsSubSeq(_, _)
IsSubSeq(s, t) ==
    IF s = <<>> THEN TRUE
    ELSE IF t = <<>> THEN FALSE
    ELSE IF Head(s) = Head(t) THEN IsSubSeq(Tail(s), Tail(t))
    ELSE IsSubSeq(s, Tail(t))

\* The balls that were in the model before the last fit, the primary left
\* out.
Others == Range(step.pre.graph) \ {Primary}

\* C33: a fit changes the centre, the radius and the stored neighbour list
\* of no ball that was in the model before it other than the primary: every
\* other ball keeps the three as they were, it changes in mass only, its
\* mass does not grow, and the references of its list that resolve after the
\* fit are among those that resolved before it.
C33_Frame ==
    step.kind \in {"absorb", "split"} =>
        \A v \in Others :
            /\ heap[v].mu = step.pre.heap[v].mu
            /\ heap[v].sigma = step.pre.heap[v].sigma
            /\ heap[v].neighbors = step.pre.heap[v].neighbors
            /\ heap[v].weight <= step.pre.heap[v].weight
            /\ IsSubSeq(iter_neighbors(Model, v), iter_neighbors(step.pre, v))

\* A fit moved the primary and changed its radius, while another ball of the
\* model kept its list, lost mass, and lost a reference that resolved before
\* the fit.
C33_Witness ==
    /\ step.kind \in {"absorb", "split"}
    /\ heap[Primary].mu # OldPrimary.mu
    /\ heap[Primary].sigma # OldPrimary.sigma
    /\ \E v \in Others \cap Range(graph) :
          /\ heap[v].neighbors # <<>>
          /\ heap[v].weight < step.pre.heap[v].weight
          /\ iter_neighbors(Model, v) # iter_neighbors(step.pre, v)

\* C34: the sentinel is created by the first fit only: once a point has been
\* fitted the model is never empty again, the init branch is the branch of
\* the first fit and of no other, and from the second fit on no ball of the
\* model has an infinite radius.
C34_SentinelOnlyFirst ==
    /\ fits >= 1 => graph # <<>>
    /\ fits = 1 => step.kind = "init"
    /\ step.kind = "init" => fits = 1 /\ step.pre.graph = <<>>
    /\ fits >= 2 => \A v \in Range(graph) : heap[v].sigma # Infinity

\* A fit after the second pruned a ball: the model shrank without becoming
\* empty, the ball the first fit created is the one that left it, every
\* radius is finite, and the next fit finds a neighbourhood.
C34_Witness ==
    /\ fits >= 3 /\ step.kind = "absorb"
    /\ Len(graph) < Len(step.pre.graph) /\ graph # <<>>
    /\ 1 \notin Range(graph)
    /\ \A v \in Range(graph) : heap[v].sigma # Infinity /\ heap[v].sigma # NaN
    /\ get_neighborhood(Model, <<FromInt(0)>>) # <<>>

\* C35: when run has returned an input error or a parse error, the model is
\* the one the last fit left, every record before the failing one was fit
\* and its output, the serialization of that model, was delivered; when run
\* has returned a sink error, the model is the one the fit of the point of
\* the last record left, and the output the sink refused is the
\* serialization of that model.
C35_ModelAtFailure ==
    /\ stream.status \in {"input error", "parse error"} =>
          /\ fits = stream.consumed - 1
          /\ Len(stream.written) = fits
          /\ fits = 0 => Model = Model_new
          /\ fits > 0 =>
                /\ Model = fit(step.pre, step.point).m
                /\ LastWritten = serialize_model(Model)
                /\ stream.sink_ok
    /\ stream.status = "sink error" =>
          /\ fits = stream.consumed
          /\ Len(stream.written) = fits
          /\ step.point = from_str(stream.input.text).point
          /\ Model = fit(step.pre, step.point).m
          /\ LastWritten = serialize_model(Model)
          /\ ~stream.sink_ok

\* run returned a sink error on the third record: the model holds the three
\* points, the third by a split, and differs from the model before it.
C35_Witness ==
    /\ stream.status = "sink error" /\ stream.consumed = 3 /\ fits = 3
    /\ step.kind = "split" /\ Len(graph) = 2
    /\ Model # step.pre
    /\ stream.written[2] = serialize_model(step.pre)

\* The texts of connection c that wait in the points channel, in the order
\* of the channel.
ChannelledFrom(c) ==
    LET own == SelectSeq([k \in 1..Len(service.points) |->
                             [from |-> service.origins[k], text |-> service.points[k]]],
                         LAMBDA e : e.from = c)
    IN  [k \in 1..Len(own) |-> own[k].text]

\* The fit loop takes a text from the points channel in the step.
IsTake == Len(service'.points) < Len(service.points)

\* C36: order is kept from end to end.  The texts a connection to
\* /ws/points sent as text messages wait in the points channel in the order
\* they were sent, whatever the other connections send in between; the text
\* the fit loop takes is the oldest one of its connection that waits, it is
\* the point that is fit, and its output is the next one; and the frames
\* written on a socket of /ws/models are, in their order and each once, the
\* outputs of the fit loop that follow the one before its registration.
C36_OrderEndToEnd ==
    [][/\ \A c \in 1..Len(service'.sockets) :
             /\ service'.sockets[c].role = "points" =>
                   ChannelledFrom(c)' = service'.sockets[c].sent
             /\ service'.sockets[c].role = "models" =>
                   \A k \in 1..Len(service'.sockets[c].frames) :
                       /\ service'.sockets[c].joined + k <= Len(stream'.written)
                       /\ service'.sockets[c].frames[k].text
                             = stream'.written[service'.sockets[c].joined + k]
       /\ IsTake =>
             LET c == Head(service.origins)
             IN  /\ Head(service.points) = Head(service.sockets[c].sent)
                 /\ service'.points = Tail(service.points)
                 /\ \A o \in 1..Len(service.sockets) :
                       o # c => ChannelledFrom(o)' = ChannelledFrom(o)
                 /\ stream'.status = "running" =>
                       /\ step'.point = from_str(Head(service.points)).point
                       /\ Model' = fit(Model, step'.point).m
                       /\ stream'.written
                             = Append(stream.written, serialize_model(Model'))
                       /\ service'.models
                             = Append(service.models, serialize_model(Model'))]_vars

\* A connection sent a point and then a text that is no point: the point
\* was fit and its output written on a subscriber before the fit loop took
\* the second text and stopped on it.
C36_Witness ==
    \E c, p \in 1..Len(service.sockets) :
        /\ service.sockets[c].role = "points"
        /\ service.sockets[c].forwarded = 2 /\ service.sockets[c].sent = <<>>
        /\ service.sockets[c].last.text = <<JsonNull>>
        /\ stream.status = "parse error" /\ stream.consumed = 2 /\ fits = 1
        /\ service.sockets[p].role = "models"
        /\ FrameTexts(service, p) = stream.written

\* The frames of every socket are what they were.
FramesUnchanged ==
    \A p \in 1..Len(service.sockets) :
        service'.sockets[p].frames = service.sockets[p].frames

\* C37: the fit loop takes the mutex of the peers at no time and waits for
\* no subscriber.  The send of its sink waits in no state, whoever holds
\* the mutex and however many peers there are; its turn leaves the mutex,
\* the peers and the frames as they are, and its output is on the models
\* channel when the turn ends.  The
\* mutex is held for one broadcast or one registration: the dispatcher
\* takes it when an output waits, the next change of the peers, of the
\* frames or of the mutex is its broadcast, which releases it, and a
\* registration starts and ends with the mutex free.
C37_FitLoopTakesNoLock ==
    [][/\ ~send_waits(service)
       /\ IsTake =>
             /\ service'.lock = service.lock
             /\ service'.peers = service.peers
             /\ FramesUnchanged
             /\ Len(stream'.written) > Len(stream.written) =>
                   service'.models = Append(service.models, LastWritten')
       /\ service.lock.holder = "none" /\ service'.lock.holder # "none" =>
             /\ service'.lock.holder = "dispatcher"
             /\ service.models # <<>> /\ service'.models = service.models
             /\ service'.peers = service.peers
             /\ FramesUnchanged
       /\ service.lock.holder # "none" =>
             /\ service'.lock # service.lock =>
                   IsDispatch /\ service'.lock.holder = "none"
             /\ service'.peers # service.peers => IsDispatch
             /\ ~FramesUnchanged => IsDispatch
       /\ IsDispatch =>
             service.lock.holder = "dispatcher" /\ service'.lock.holder = "none"
       /\ Len(service'.peers) > Len(service.peers) =>
             service.lock.holder = "none" /\ service'.lock.holder = "none"]_vars

\* The fit loop emitted an output while the dispatcher held the mutex of
\* two peers for the broadcast of the output before.
C37_Witness ==
    /\ service.lock.holder = "dispatcher"
    /\ Len(stream.written) > service.lock.since
    /\ Len(service.models) = 2
    /\ Len(service.peers) = 2

\* The reader of connection c ended on a close message.
Closed(c) ==
    /\ service.sockets[c].role = "points" /\ ~service.sockets[c].reading
    /\ service.sockets[c].last.ok /\ service.sockets[c].last.type = "close"

\* C38: the input of run does not end because a client of /ws/points
\* closed: when the reader of a connection has ended on a close message,
\* the input of run has not reached its end.
C38_CloseNeverEndsInput ==
    (\E c \in 1..Len(service.sockets) : Closed(c)) => stream.status # "ok"

\* As long as the thread of the listener runs, the input of run does not
\* end, whatever the clients close.
InputOpenWhileListening ==
    /\ service.listening => stream.status # "ok"
    /\ service.listening => ~points_ended(service)

\* A connection was closed, the listener is still there, and the point
\* another connection sent was fit.
FittedNextToClosed ==
    \E c, o \in 1..Len(service.sockets) :
        /\ Closed(c) /\ service.sockets[c].forwarded = 0
        /\ service.listening /\ stream.status = "running"
        /\ o > c /\ service.sockets[o].forwarded = 1 /\ fits = 1

====
